---- MODULE Spec2Model ----
(***************************************************************************)
(* Model of the PLCO documentation build helpers:                          *)
(*   src/build_index.py  - the standalone index builder                    *)
(*   src/build_local.py  - the local WIDOCO driver (prerequisite checks,   *)
(*                         per-file generation, latest folders, index)     *)
(*                                                                         *)
(* Strings of the program are TLA+ strings; wherever the code looks INTO a *)
(* string (comparison, endswith, split, int, isdigit) the model works on   *)
(* Chars(s), the sequence of the string's code points.                     *)
(*                                                                         *)
(* A path is the sequence of its segments:                                 *)
(*   <<"ontology", type, name, version, file>>.                            *)
(* Filesystem operations on the docs tree (mkdir, rename, rmtree,          *)
(* copytree) are taken to succeed; the external tool and the template      *)
(* step may fail.                                                          *)
(***************************************************************************)
EXTENDS Integers, Sequences, FiniteSets, TLC

(***************************************************************************)
(* Bounds of the model.                                                    *)
(***************************************************************************)
\* at most this many files in the ontology tree
MaxFiles == 3
\* at most this many module directories in a pre-existing docs tree
MaxModules == 2

(***************************************************************************)
(* Strings.                                                                *)
(***************************************************************************)
\* code points of the strings the model uses
Chars(s) ==
    CASE s = "ontology"    -> <<111, 110, 116, 111, 108, 111, 103, 121>>
      [] s = "modules"     -> <<109, 111, 100, 117, 108, 101, 115>>
      [] s = "demo"        -> <<100, 101, 109, 111>>
      [] s = "actorODP"    -> <<97, 99, 116, 111, 114, 79, 68, 80>>
      [] s = "observation" -> <<111, 98, 115, 101, 114, 118, 97, 116, 105, 111, 110>>
      [] s = "processODP"  -> <<112, 114, 111, 99, 101, 115, 115, 79, 68, 80>>
      [] s = "product"     -> <<112, 114, 111, 100, 117, 99, 116>>
      [] s = "resourceODP" -> <<114, 101, 115, 111, 117, 114, 99, 101, 79, 68, 80>>
      [] s = "location"    -> <<108, 111, 99, 97, 116, 105, 111, 110>>
      [] s = "widgetX"     -> <<119, 105, 100, 103, 101, 116, 88>>
      [] s = "Zeta"        -> <<90, 101, 116, 97>>
      [] s = "0.2"         -> <<48, 46, 50>>
      [] s = "0.10"        -> <<48, 46, 49, 48>>
      [] s = "1.0"         -> <<49, 46, 48>>
      [] s = "v1"          -> <<118, 49>>
      [] s = "latest"      -> <<108, 97, 116, 101, 115, 116>>
      [] s = "a.owl"       -> <<97, 46, 111, 119, 108>>
      [] s = "a.ttl"       -> <<97, 46, 116, 116, 108>>
      [] s = "b.ttl"       -> <<98, 46, 116, 116, 108>>
      [] s = ".ttl"        -> <<46, 116, 116, 108>>
      [] s = ".owl"        -> <<46, 111, 119, 108>>
      [] s = ".rdf"        -> <<46, 114, 100, 102>>

\* code point of '.'
DOT == 46
\* code point of '0'
ZERO == 48
\* code point of '9'
NINE == 57

Min(a, b) == IF a < b THEN a ELSE b

\* Python's < on sequences (str by code point, list of int by element):
\* the first differing position decides, a proper prefix is smaller
SeqLess(a, b) ==
    \/ \E i \in 1..Min(Len(a), Len(b)) :
          /\ a[i] < b[i]
          /\ \A j \in 1..(i - 1) : a[j] = b[j]
    \/ /\ Len(a) < Len(b)
       /\ \A j \in 1..Len(a) : a[j] = b[j]

\* str.__lt__
StrLess(s, t) == SeqLess(Chars(s), Chars(t))

\* str.__le__
StrLeq(s, t) == s = t \/ StrLess(s, t)

\* str.endswith
EndsWith(s, suffix) ==
    LET c == Chars(s)
        x == Chars(suffix)
    IN  /\ Len(x) <= Len(c)
        /\ \A i \in 1..Len(x) : c[Len(c) - Len(x) + i] = x[i]

\* str.isdigit on one character
IsDigit(ch) == ZERO <= ch /\ ch <= NINE

\* str.split('.') on code points: the pieces between the dots
RECURSIVE SplitDot(_)
SplitDot(c) ==
    IF \A i \in 1..Len(c) : c[i] # DOT
    THEN <<c>>
    ELSE LET k == CHOOSE i \in 1..Len(c) :
                     c[i] = DOT /\ \A j \in 1..(i - 1) : c[j] # DOT
         IN  <<SubSeq(c, 1, k - 1)>> \o SplitDot(SubSeq(c, k + 1, Len(c)))

\* int(p) for a string of decimal digits
RECURSIVE IntOf(_)
IntOf(c) ==
    IF Len(c) = 0 THEN 0
    ELSE 10 * IntOf(SubSeq(c, 1, Len(c) - 1)) + (c[Len(c)] - ZERO)

\* the sort key of create_latest_folders: [int(p) for p in x.name.split('.')]
\* (the digit-led directory names of the model are dotted decimal numbers;
\* for any other digit-led name int raises ValueError and the run ends)
VersionKey(v) ==
    LET parts == SplitDot(Chars(v))
    IN  [i \in 1..Len(parts) |-> IntOf(parts[i])]

(***************************************************************************)
(* Sorting.  list.sort is stable; each sort below inserts the elements in  *)
(* list order, each after the elements not greater than it.                *)
(***************************************************************************)
\* versions.sort(reverse=True): descending by string comparison
RECURSIVE InsertVersionDesc(_, _)
InsertVersionDesc(v, s) ==
    IF s = <<>> THEN <<v>>
    ELSE IF StrLess(s[1], v) THEN <<v>> \o s
    ELSE <<s[1]>> \o InsertVersionDesc(v, Tail(s))

RECURSIVE SortVersionsDesc(_)
SortVersionsDesc(s) ==
    IF s = <<>> THEN <<>>
    ELSE InsertVersionDesc(s[Len(s)], SortVersionsDesc(SubSeq(s, 1, Len(s) - 1)))

\* list.sort(key=lambda x: x["name"]): ascending by the entries' names
RECURSIVE InsertByName(_, _)
InsertByName(e, s) ==
    IF s = <<>> THEN <<e>>
    ELSE IF StrLess(e.name, s[1].name) THEN <<e>> \o s
    ELSE <<s[1]>> \o InsertByName(e, Tail(s))

RECURSIVE SortByName(_)
SortByName(s) ==
    IF s = <<>> THEN <<>>
    ELSE InsertByName(s[Len(s)], SortByName(SubSeq(s, 1, Len(s) - 1)))

\* the enumeration orders of a finite set: every sequence listing each
\* element once
Orders(S) ==
    {q \in [1..Cardinality(S) -> S] : \A i, j \in DOMAIN q : q[i] = q[j] => i = j}

(***************************************************************************)
(* The inputs: the ontology tree.                                          *)
(***************************************************************************)
\* the files an ontology tree may hold in a run of the scripts, laid out as
\* ontology/{modules,demo}/<name>/<version>/<file>
OntologyUniverse ==
    {<<"ontology", "modules", "actorODP", "0.2", "a.owl">>,
     <<"ontology", "modules", "actorODP", "0.2", "a.ttl">>,
     <<"ontology", "modules", "actorODP", "0.10", "a.ttl">>,
     <<"ontology", "modules", "actorODP", "1.0", "a.ttl">>,
     <<"ontology", "modules", "widgetX", "0.2", "a.ttl">>,
     <<"ontology", "modules", "widgetX", "0.10", "a.ttl">>,
     <<"ontology", "demo", "widgetX", "0.2", "a.owl">>,
     <<"ontology", "demo", "widgetX", "0.2", "a.ttl">>}

\* the ontology trees of a run: at most MaxFiles files
OntologyTrees == {t \in SUBSET OntologyUniverse : Cardinality(t) <= MaxFiles}

\* the files an ontology tree may hold when create_index_file is followed
\* step by step: more names, and two .ttl files in one version directory
IndexUniverse ==
    {<<"ontology", "modules", "actorODP", v, f>> :
         v \in {"0.2", "0.10", "1.0"}, f \in {"a.owl", "a.ttl", "b.ttl"}}
    \cup {<<"ontology", "modules", "product", "0.2", "a.ttl">>,
          <<"ontology", "modules", "widgetX", "0.2", "a.ttl">>,
          <<"ontology", "modules", "widgetX", "0.10", "a.ttl">>,
          <<"ontology", "modules", "Zeta", "1.0", "a.ttl">>,
          <<"ontology", "demo", "widgetX", "0.2", "a.ttl">>,
          <<"ontology", "demo", "widgetX", "0.2", "a.owl">>,
          <<"ontology", "demo", "Zeta", "1.0", "a.ttl">>}

\* at most MaxFiles files
IndexTrees == {t \in SUBSET IndexUniverse : Cardinality(t) <= MaxFiles}

(***************************************************************************)
(* create_index_file: the static tables and the aggregation.               *)
(***************************************************************************)
core == {"actorODP", "observation", "processODP", "product", "resourceODP", "location"}
core_actor == {"actorODP"}
core_process == {"processODP"}
core_resource == {"resourceODP", "product"}
core_observation == {"observation"}
core_supplementary == {"location"}

\* for type in ["modules", "demo"]
IndexTypes == <<"modules", "demo">>

\* data = {"core": [], "other": [], ...}
EmptyData ==
    [core |-> <<>>, other |-> <<>>, demo |-> <<>>, actor |-> <<>>,
     observation |-> <<>>, process |-> <<>>, resource |-> <<>>,
     supplementary |-> <<>>]

\* glob(f"ontology/{type}/*/*/*"): the paths of five segments under the type
Glob(tree, type) ==
    {p \in tree : Len(p) = 5 /\ p[1] = "ontology" /\ p[2] = type}

\* the lists glob may return: the matches in any order
GlobLists(tree, type) == Orders(Glob(tree, type))

\* re.match(f"ontology/{type}/([^/]*)/([^/]*)", source).group(1)
MatchName(source) == source[3]

\* re.match(f"ontology/{type}/([^/]*)/([^/]*)", source).group(2)
MatchVersion(source) == source[4]

\* source.endswith(".ttl")
IsIndexable(source) == EndsWith(source[Len(source)], ".ttl")

\* ontologies.get(name): the position of the name's entry, 0 when it has none
Position(ontologies, name) ==
    IF \E i \in 1..Len(ontologies) : ontologies[i].name = name
    THEN CHOOSE i \in 1..Len(ontologies) : ontologies[i].name = name
    ELSE 0

\* AppendVersion with the versions ordered by their numbers instead
RECURSIVE InsertVersionNumeric(_, _)
InsertVersionNumeric(v, s) ==
    IF s = <<>> THEN <<v>>
    ELSE IF SeqLess(VersionKey(s[1]), VersionKey(v)) THEN <<v>> \o s
    ELSE <<s[1]>> \o InsertVersionNumeric(v, Tail(s))

AppendVersion_Numeric(versions, version) == InsertVersionNumeric(version, versions)

\* versions.append(version); versions.sort(reverse=True)
AppendVersion(versions, version) == SortVersionsDesc(Append(versions, version))

\* one pass of the loop over the sources: ontologies is the dict, kept as the
\* sequence of its values in insertion order
AddSource(ontologies, source) ==
    IF ~IsIndexable(source) THEN ontologies
    ELSE LET name == MatchName(source)
             version == MatchVersion(source)
             with == IF Position(ontologies, name) = 0
                     THEN Append(ontologies, [name |-> name, versions |-> <<>>])
                     ELSE ontologies
             k == Position(with, name)
         IN  [with EXCEPT ![k].versions = AppendVersion(@, version)]

\* the loop over the sources of one type
RECURSIVE ScanSources(_)
ScanSources(sources) ==
    IF sources = <<>> THEN <<>>
    ELSE AddSource(ScanSources(SubSeq(sources, 1, Len(sources) - 1)),
                   sources[Len(sources)])

\* bucket.append(ontology) when the condition holds
AppendIf(cond, bucket, ontology) == IF cond THEN Append(bucket, ontology) ELSE bucket

\* PlaceEntry with the else of "if name in core" lost: every module entry
\* goes to other
PlaceEntry_OtherAlways(type, d, ontology) ==
    LET name == ontology.name
    IN  IF type = "demo"
        THEN [d EXCEPT !.demo = Append(@, ontology)]
        ELSE [d EXCEPT
                !.core = AppendIf(name \in core, @, ontology),
                !.actor = AppendIf(name \in core_actor, @, ontology),
                !.process = AppendIf(name \in core_process, @, ontology),
                !.resource = AppendIf(name \in core_resource, @, ontology),
                !.observation = AppendIf(name \in core_observation, @, ontology),
                !.supplementary = AppendIf(name \in core_supplementary, @, ontology),
                !.other = Append(@, ontology)]

\* "Split into core, other and demo": one entry placed into the buckets
PlaceEntry(type, d, ontology) ==
    LET name == ontology.name
    IN  IF type = "demo"
        THEN [d EXCEPT !.demo = Append(@, ontology)]
        ELSE IF name \in core
        THEN [d EXCEPT
                !.core = Append(@, ontology),
                !.actor = AppendIf(name \in core_actor, @, ontology),
                !.process = AppendIf(name \in core_process, @, ontology),
                !.resource = AppendIf(name \in core_resource, @, ontology),
                !.observation = AppendIf(name \in core_observation, @, ontology),
                !.supplementary = AppendIf(name \in core_supplementary, @, ontology)]
        ELSE [d EXCEPT !.other = Append(@, ontology)]

\* for name in ontologies: the entries placed in insertion order
RECURSIVE SplitType(_, _, _)
SplitType(type, d, ontologies) ==
    IF ontologies = <<>> THEN d
    ELSE PlaceEntry(type,
                    SplitType(type, d, SubSeq(ontologies, 1, Len(ontologies) - 1)),
                    ontologies[Len(ontologies)])

\* SortLists with the final sort left out
SortLists_Unsorted(d) == d

\* for list in data.values(): list.sort(key=lambda x: x["name"])
SortLists(d) == [b \in DOMAIN d |-> SortByName(d[b])]

\* the whole aggregation, for the lists the two glob calls returned
IndexData(modules_list, demo_list) ==
    SortLists(SplitType("demo",
                        SplitType("modules", EmptyData, ScanSources(modules_list)),
                        ScanSources(demo_list)))

(***************************************************************************)
(* find_ontology_files and generate_documentation.                         *)
(***************************************************************************)
\* extensions = ['*.owl', '*.ttl', '*.rdf']
extensions == <<".owl", ".ttl", ".rdf">>

\* <type>_path.rglob(ext): the files below ontology/<type> with the extension
Rglob(tree, type, ext) ==
    {p \in tree : p[1] = "ontology" /\ p[2] = type /\ EndsWith(p[Len(p)], ext)}

\* the place of a file in the list before it is sorted: modules before demo,
\* and within each the extensions in the order of the list above
FoundBlock(p) ==
    LET t == IF p[2] = "modules" THEN 0 ELSE 1
        e == CHOOSE i \in 1..Len(extensions) : EndsWith(p[Len(p)], extensions[i])
    IN  3 * t + e

\* the files find_ontology_files collects
Found(tree) ==
    UNION {Rglob(tree, type, extensions[i]) :
               type \in {"modules", "demo"}, i \in 1..Len(extensions)}

\* the lists ontology_files may be before sorted(): block after block, each
\* rglob in any order
FoundLists(tree) ==
    {q \in Orders(Found(tree)) :
        \A i, j \in DOMAIN q : i < j => FoundBlock(q[i]) <= FoundBlock(q[j])}

\* Path.__lt__: the segments compared in turn, each as a string
RECURSIVE PathLess(_, _)
PathLess(p, q) ==
    IF p = <<>> THEN q # <<>>
    ELSE IF q = <<>> THEN FALSE
    ELSE IF p[1] = q[1] THEN PathLess(Tail(p), Tail(q))
    ELSE StrLess(p[1], q[1])

RECURSIVE InsertPath(_, _)
InsertPath(p, s) ==
    IF s = <<>> THEN <<p>>
    ELSE IF PathLess(p, s[1]) THEN <<p>> \o s
    ELSE <<s[1]>> \o InsertPath(p, Tail(s))

\* sorted(ontology_files)
RECURSIVE SortedPaths(_)
SortedPaths(s) ==
    IF s = <<>> THEN <<>>
    ELSE InsertPath(s[Len(s)], SortedPaths(SubSeq(s, 1, Len(s) - 1)))

\* what find_ontology_files returns for the list it collected
FindOntologyFiles(collected) == SortedPaths(collected)

\* output_dir: ontology_file.relative_to(ONTOLOGY_DIR).parent under DOCS_DIR;
\* a directory of the docs tree is <<type, name, subdirectory>>
OutputDir(ontology_file) ==
    SubSeq(ontology_file, 2, Len(ontology_file) - 1)

\* a directory just made by mkdir
EmptyDir == [index_en |-> <<>>, index_html |-> <<>>]

\* output_dir.mkdir(parents=True, exist_ok=True)
Mkdir(tree, dir) == IF dir \in DOMAIN tree THEN tree ELSE (dir :> EmptyDir) @@ tree

\* how one run of the external tool may end: return code 0 with or without
\* an index-en.html, a nonzero return code, a timeout or another exception,
\* the failures with or without an index-en.html already written
ToolOutcomes ==
    {"ok", "ok_no_index", "nonzero", "nonzero_partial", "timeout",
     "timeout_partial", "exception"}

\* result.returncode == 0 and no exception
ToolSucceeded(outcome) == outcome \in {"ok", "ok_no_index"}

\* what the tool leaves in the output directory (-rewriteAll: it overwrites)
ToolWrites(dir, ontology_file, outcome) ==
    IF outcome \in {"ok", "nonzero_partial", "timeout_partial"}
    THEN [dir EXCEPT !.index_en = <<ontology_file>>]
    ELSE dir

\* if index_en.exists(): index_en.rename(index_html)
RenameIndex(dir) ==
    IF dir.index_en # <<>>
    THEN [index_en |-> <<>>, index_html |-> dir.index_en]
    ELSE dir

\* the output directory after generate_documentation ran the tool in it
AfterTool(dir, ontology_file, outcome) ==
    IF ToolSucceeded(outcome)
    THEN RenameIndex(ToolWrites(dir, ontology_file, outcome))
    ELSE ToolWrites(dir, ontology_file, outcome)

(***************************************************************************)
(* create_latest_folders.                                                  *)
(***************************************************************************)
\* the module directories <<category, module>> of the docs tree
ModuleDirs(tree) ==
    {<<d[1], d[2]>> : d \in {e \in DOMAIN tree : e[1] # "dev"}}

\* d.is_dir() and d.name != 'latest' and d.name[0].isdigit()
IsVersionDir(d) == d[3] # "latest" /\ IsDigit(Chars(d[3])[1])

\* version_dirs of one module directory
VersionDirs(tree, m) ==
    {d \in DOMAIN tree : d[1] = m[1] /\ d[2] = m[2] /\ IsVersionDir(d)}

\* VersionLeq with the names compared as strings, as the index does
VersionLeq_ByString(v, w) == StrLeq(v, w)

\* the order of version_dirs.sort(key=...): by the lists of integers
VersionLeq(v, w) == VersionKey(v) = VersionKey(w) \/ SeqLess(VersionKey(v), VersionKey(w))

\* version_dirs[-1] after the sort (the version names of the model have
\* distinct keys, so the last element is the one greatest element)
LatestVersion(dirs) ==
    CHOOSE d \in dirs : \A e \in dirs : VersionLeq(e[3], d[3])

\* the modules that get a latest folder: those with a version directory
WithVersions(tree) == {m \in ModuleDirs(tree) : VersionDirs(tree, m) # {}}

\* the docs tree after the whole of create_latest_folders: for each module
\* rmtree(latest) if it exists, then copytree(latest_version, latest)
LatestCopied(tree) ==
    LET ms == WithVersions(tree)
        lat == [d \in {<<m[1], m[2], "latest">> : m \in ms} |->
                   tree[LatestVersion(VersionDirs(tree, <<d[1], d[2]>>))]]
    IN  lat @@ tree

\* "Latest version: ..." as printed for each module
LatestNames(tree) ==
    [m \in WithVersions(tree) |-> LatestVersion(VersionDirs(tree, m))[3]]

(***************************************************************************)
(* The template step and the exit status.                                  *)
(***************************************************************************)
\* how the template step may end: rendered and written; index.hbs cannot be
\* read (nothing is opened for writing); the template raises while the
\* index file is already open for writing (it is left empty)
RenderOutcomes == {"ok", "no_template", "render_error"}

\* index_file before any run wrote it
AbsentFile == [state |-> "absent", data |-> EmptyData]

\* the index file after open(template_file), open(index_file, "w"), f.write
IndexFileAfter(file, d, outcome) ==
    CASE outcome = "ok"           -> [state |-> "rendered", data |-> d]
      [] outcome = "render_error" -> [state |-> "empty", data |-> EmptyData]
      [] outcome = "no_template"  -> file

\* IndexFailureCaught with the try/except of build_local.py left out
IndexFailureCaught_Nowhere(prog) == FALSE

\* whether an exception of the template step is caught: build_local.py wraps
\* the step in try/except Exception and returns False, build_index.py does not
IndexFailureCaught(prog) == prog = "build_local"

\* sys.exit(1) of a failed prerequisite, of an empty file list, and of an
\* uncaught exception
EXIT_FAILURE == 1

\* ExitStatus with the final check of fail_count left out
ExitStatus_AlwaysZero(fails) == 0

\* the end of main: sys.exit(1) if fail_count > 0, else falling off the end
ExitStatus(fails) == IF fails > 0 THEN EXIT_FAILURE ELSE 0

(***************************************************************************)
(* The state.                                                              *)
(***************************************************************************)
VARIABLES
    program,            \* "build_local" or "build_index": the script run
    java_installed,     \* whether running java finds the binary
    widoco_jar_exists,  \* os.path.exists(WIDOCO_JAR_PATH)
    fs,                 \* the ontology tree: the set of its files
    docs,               \* the docs/dev tree: directory -> contents
    pc,                 \* where the run is
    ontology_files,     \* main: the sorted list of discovered files
    results,            \* what generate_documentation returned, file by file
    success_count,      \* main
    fail_count,         \* main
    invocations,        \* the files the external tool was run for, in order
    latest_of,          \* module -> the version copied to its latest folder
    data,               \* create_index_file: the buckets
    index_file,         \* the index file on disk
    index_returned,     \* "none", "true", "false" or "raised"
    exit_code,          \* the exit status, -1 while the run goes on
    tix,                \* create_index_file: position in IndexTypes
    sources,            \* create_index_file: the list glob returned
    spos,               \* create_index_file: sources handled so far
    ontologies          \* create_index_file: the dict of the current type

envVars == <<program, java_installed, widoco_jar_exists, fs>>
mainVars == <<ontology_files, results, success_count, fail_count, invocations>>
scanVars == <<tix, sources, spos, ontologies>>
outVars == <<data, index_file, index_returned>>
vars == <<envVars, mainVars, scanVars, outVars, docs, latest_of, pc, exit_code>>

\* the docs tree with no directory in it
NoDocs == [d \in {} |-> EmptyDir]

\* the state every run starts from, but for the inputs
Fresh ==
    /\ ontology_files = <<>>
    /\ results = <<>>
    /\ success_count = 0
    /\ fail_count = 0
    /\ invocations = <<>>
    /\ latest_of = [m \in {} |-> ""]
    /\ data = EmptyData
    /\ index_file = AbsentFile
    /\ index_returned = "none"
    /\ exit_code = -1
    /\ tix = 1
    /\ sources = <<>>
    /\ spos = 0
    /\ ontologies = <<>>

\* a run of build_local.py or of build_index.py on an ontology tree, with
\* no docs tree yet
Init ==
    /\ fs \in OntologyTrees
    /\ docs = NoDocs
    /\ \/ /\ program = "build_local"
          /\ java_installed \in BOOLEAN
          /\ widoco_jar_exists \in BOOLEAN
          /\ pc = "check_java"
       \/ /\ program = "build_index"
          /\ java_installed = TRUE
          /\ widoco_jar_exists = TRUE
          /\ pc = "create_index"
    /\ Fresh

(***************************************************************************)
(* build_local.py: main.                                                   *)
(***************************************************************************)
\* check_java(): False when running java raises FileNotFoundError
check_java == java_installed

\* check_widoco with the result of os.path.exists ignored
check_widoco_ignored == TRUE

\* check_widoco()
check_widoco == widoco_jar_exists

\* sys.exit(code)
Exit(code) ==
    /\ pc' = "exit"
    /\ exit_code' = code

\* if not check_java(): sys.exit(1)
CheckJava ==
    /\ pc = "check_java"
    /\ IF check_java
       THEN pc' = "check_widoco" /\ UNCHANGED exit_code
       ELSE Exit(EXIT_FAILURE)
    /\ UNCHANGED <<envVars, mainVars, scanVars, outVars, docs, latest_of>>

\* if not check_widoco(): sys.exit(1)
CheckWidoco ==
    /\ pc = "check_widoco"
    /\ IF check_widoco
       THEN pc' = "find" /\ UNCHANGED exit_code
       ELSE Exit(EXIT_FAILURE)
    /\ UNCHANGED <<envVars, mainVars, scanVars, outVars, docs, latest_of>>

\* ontology_files = find_ontology_files(); sys.exit(1) when there is none
FindFiles ==
    /\ pc = "find"
    /\ \E collected \in FoundLists(fs) :
          /\ ontology_files' = FindOntologyFiles(collected)
          /\ IF collected = <<>>
             THEN Exit(EXIT_FAILURE)
             ELSE pc' = "generate" /\ UNCHANGED exit_code
    /\ UNCHANGED <<envVars, results, success_count, fail_count, invocations,
                   scanVars, outVars, docs, latest_of>>

\* the loop's next file
NextFile == ontology_files[Len(results) + 1]

\* GenerateDocumentation with the loop left at the first failure
GenerateDocumentation_Breaks ==
    /\ pc = "generate"
    /\ Len(results) < Len(ontology_files)
    /\ \E outcome \in ToolOutcomes :
          LET dir == OutputDir(NextFile)
          IN  /\ docs' = [Mkdir(docs, dir) EXCEPT
                             ![dir] = AfterTool(@, NextFile, outcome)]
              /\ invocations' = Append(invocations, NextFile)
              /\ results' = Append(results, ToolSucceeded(outcome))
              /\ IF ToolSucceeded(outcome)
                 THEN /\ success_count' = success_count + 1
                      /\ UNCHANGED <<fail_count, pc>>
                 ELSE /\ fail_count' = fail_count + 1
                      /\ pc' = IF success_count > 0 THEN "latest" ELSE "summary"
                      /\ UNCHANGED success_count
    /\ UNCHANGED <<envVars, ontology_files, scanVars, outVars, latest_of,
                   exit_code>>

\* one pass of "for ontology_file in ontology_files": the directory is made,
\* the tool is run once, index-en.html is renamed on success, and the
\* result is counted
GenerateDocumentation ==
    /\ pc = "generate"
    /\ Len(results) < Len(ontology_files)
    /\ \E outcome \in ToolOutcomes :
          LET dir == OutputDir(NextFile)
          IN  /\ docs' = [Mkdir(docs, dir) EXCEPT
                             ![dir] = AfterTool(@, NextFile, outcome)]
              /\ invocations' = Append(invocations, NextFile)
              /\ results' = Append(results, ToolSucceeded(outcome))
              /\ IF ToolSucceeded(outcome)
                 THEN success_count' = success_count + 1 /\ UNCHANGED fail_count
                 ELSE fail_count' = fail_count + 1 /\ UNCHANGED success_count
    /\ UNCHANGED <<envVars, ontology_files, scanVars, outVars, latest_of, pc,
                   exit_code>>

\* the loop is over: if success_count > 0 the latest folders and the index
\* follow, else the summary
LoopEnd ==
    /\ pc = "generate"
    /\ Len(results) = Len(ontology_files)
    /\ pc' = IF success_count > 0 THEN "latest" ELSE "summary"
    /\ UNCHANGED <<envVars, mainVars, scanVars, outVars, docs, latest_of,
                   exit_code>>

\* create_latest_folders()
CreateLatestFolders ==
    /\ pc = "latest"
    /\ docs' = LatestCopied(docs)
    /\ latest_of' = LatestNames(docs)
    /\ pc' = "index"
    /\ UNCHANGED <<envVars, mainVars, scanVars, outVars, exit_code>>

\* create_index_file() of build_local.py, called from main: the buckets are
\* built, the template step runs, and True or False comes back
CreateIndexFile ==
    /\ pc = "index"
    /\ \E ml \in GlobLists(fs, "modules"), dl \in GlobLists(fs, "demo"),
          outcome \in RenderOutcomes :
          /\ data' = IndexData(ml, dl)
          /\ index_file' = IndexFileAfter(index_file, IndexData(ml, dl), outcome)
          /\ index_returned' = IF outcome = "ok" THEN "true"
                               ELSE IF IndexFailureCaught(program) THEN "false"
                               ELSE "raised"
          /\ IF outcome = "ok" \/ IndexFailureCaught(program)
             THEN pc' = "summary" /\ UNCHANGED exit_code
             ELSE Exit(EXIT_FAILURE)
    /\ UNCHANGED <<envVars, mainVars, scanVars, docs, latest_of>>

\* the summary, then sys.exit(1) if fail_count > 0
Summary ==
    /\ pc = "summary"
    /\ Exit(ExitStatus(fail_count))
    /\ UNCHANGED <<envVars, mainVars, scanVars, outVars, docs, latest_of>>

(***************************************************************************)
(* build_index.py: main, which only calls create_index_file(index_file).   *)
(***************************************************************************)
\* an exception of the template step is not caught: the run ends with a
\* traceback and status 1; otherwise main returns and the status is 0
IndexMain ==
    /\ pc = "create_index"
    /\ \E ml \in GlobLists(fs, "modules"), dl \in GlobLists(fs, "demo"),
          outcome \in RenderOutcomes :
          /\ data' = IndexData(ml, dl)
          /\ index_file' = IndexFileAfter(index_file, IndexData(ml, dl), outcome)
          /\ index_returned' = IF outcome = "ok" THEN "true"
                               ELSE IF IndexFailureCaught(program) THEN "false"
                               ELSE "raised"
          /\ IF outcome = "ok" \/ IndexFailureCaught(program)
             THEN Exit(0)
             ELSE Exit(EXIT_FAILURE)
    /\ UNCHANGED <<envVars, mainVars, scanVars, docs, latest_of>>

Next ==
    \/ CheckJava
    \/ CheckWidoco
    \/ FindFiles
    \/ GenerateDocumentation
    \/ LoopEnd
    \/ CreateLatestFolders
    \/ CreateIndexFile
    \/ Summary
    \/ IndexMain

Spec == Init /\ [][Next]_vars

(***************************************************************************)
(* create_index_file followed step by step (the same code in both          *)
(* scripts): glob, the loop over the sources, the split, the sort, the     *)
(* template step.                                                          *)
(***************************************************************************)
\* a call of create_index_file on an ontology tree
InitIndex ==
    /\ fs \in IndexTrees
    /\ docs = NoDocs
    /\ program \in {"build_local", "build_index"}
    /\ java_installed = TRUE
    /\ widoco_jar_exists = TRUE
    /\ pc = "ix_glob"
    /\ Fresh

\* for source in glob(...): the list is taken, ontologies = {}
IxGlob ==
    /\ pc = "ix_glob"
    /\ \E lst \in GlobLists(fs, IndexTypes[tix]) : sources' = lst
    /\ spos' = 0
    /\ ontologies' = <<>>
    /\ pc' = "ix_scan"
    /\ UNCHANGED <<envVars, mainVars, tix, outVars, docs, latest_of, exit_code>>

\* one pass of the loop over the sources
IxScan ==
    /\ pc = "ix_scan"
    /\ spos < Len(sources)
    /\ ontologies' = AddSource(ontologies, sources[spos + 1])
    /\ spos' = spos + 1
    /\ UNCHANGED <<envVars, mainVars, tix, sources, outVars, docs, latest_of,
                   pc, exit_code>>

\* the sources are exhausted: the entries of this type go to the buckets,
\* and the next type follows, or the sort after the last
IxSplit ==
    /\ pc = "ix_scan"
    /\ spos = Len(sources)
    /\ data' = SplitType(IndexTypes[tix], data, ontologies)
    /\ IF tix < Len(IndexTypes)
       THEN tix' = tix + 1 /\ pc' = "ix_glob"
       ELSE tix' = tix /\ pc' = "ix_sort"
    /\ UNCHANGED <<envVars, mainVars, sources, spos, ontologies, index_file,
                   index_returned, docs, latest_of, exit_code>>

\* every bucket is sorted by name
IxSort ==
    /\ pc = "ix_sort"
    /\ data' = SortLists(data)
    /\ pc' = "ix_render"
    /\ UNCHANGED <<envVars, mainVars, scanVars, index_file, index_returned,
                   docs, latest_of, exit_code>>

\* the template step: data is handed to the template and the file written,
\* or the step raises (caught in build_local.py only)
IxRender ==
    /\ pc = "ix_render"
    /\ \E outcome \in RenderOutcomes :
          /\ index_file' = IndexFileAfter(index_file, data, outcome)
          /\ index_returned' = IF outcome = "ok" THEN "true"
                               ELSE IF IndexFailureCaught(program) THEN "false"
                               ELSE "raised"
    /\ pc' = "ix_done"
    /\ UNCHANGED <<envVars, mainVars, scanVars, data, docs, latest_of, exit_code>>

NextIndex ==
    \/ IxGlob
    \/ IxScan
    \/ IxSplit
    \/ IxSort
    \/ IxRender

SpecIndex == InitIndex /\ [][NextIndex]_vars

(***************************************************************************)
(* create_latest_folders on a docs tree that earlier runs left.            *)
(***************************************************************************)
\* the module directories such a tree may hold
ModuleUniverse ==
    {<<"modules", "actorODP">>, <<"modules", "widgetX">>, <<"demo", "widgetX">>}

\* the subdirectories a module directory may hold
SubdirNames == {"0.2", "0.10", "1.0", "v1", "latest"}

\* the version a latest folder left by an earlier run is a copy of
StaleVersion == "0.2"

\* the index.html of a version directory generated from its a.ttl
Generated(m, v) ==
    [index_en |-> <<>>,
     index_html |-> << <<"ontology", m[1], m[2], v, "a.ttl">> >>]

\* the docs trees with the module directories ms: each with some
\* subdirectories; a latest folder is a copy of a version generated earlier
DocsTreesOver(ms) ==
    { [d \in {e \in {<<m[1], m[2], s>> : m \in ms, s \in SubdirNames} :
                 e[3] \in c[<<e[1], e[2]>>]} |->
          IF d[3] = "latest"
          THEN Generated(<<d[1], d[2]>>, StaleVersion)
          ELSE Generated(<<d[1], d[2]>>, d[3])] :
      c \in [ms -> SUBSET SubdirNames \ {{}}] }

\* the sets of at most MaxModules module directories
ModuleSets == {x \in SUBSET ModuleUniverse : Cardinality(x) <= MaxModules}

\* main has generated the documentation and is about to call
\* create_latest_folders
InitLatest ==
    /\ fs = {}
    /\ \E ms \in ModuleSets : docs \in DocsTreesOver(ms)
    /\ program = "build_local"
    /\ java_installed = TRUE
    /\ widoco_jar_exists = TRUE
    /\ pc = "latest"
    /\ Fresh

NextLatest == CreateLatestFolders

SpecLatest == InitLatest /\ [][NextLatest]_vars

(***************************************************************************)
(* The properties.  Their helpers restate the expected results without     *)
(* the operators of the model they are checked against.                    *)
(***************************************************************************)
\* the names that occur in an ontology tree of the model or in the tables
AllNames == {p[3] : p \in IndexUniverse} \cup core

\* the version segments that occur
AllVersions == {p[4] : p \in IndexUniverse}

\* the eight buckets
Buckets ==
    {"core", "other", "demo", "actor", "observation", "process", "resource",
     "supplementary"}

\* the .ttl files of the model
TtlFileNames == {"a.ttl", "b.ttl"}

\* the .ttl files of a set of paths under a type and a name
TtlFiles(paths, type, name) ==
    {p \in paths : p[2] = type /\ p[3] = name /\ p[5] \in TtlFileNames}

\* how many entries of a bucket carry the name
Count(bucket, name) == Cardinality({i \in DOMAIN bucket : bucket[i].name = name})

\* how often a version occurs in a version list
Occurrences(versions, v) == Cardinality({i \in DOMAIN versions : versions[i] = v})

\* 1 when the condition holds, else 0
OneIf(cond) == IF cond THEN 1 ELSE 0

\* the static table of a secondary bucket
TagTable(tag) ==
    CASE tag = "actor"         -> core_actor
      [] tag = "process"       -> core_process
      [] tag = "resource"      -> core_resource
      [] tag = "observation"   -> core_observation
      [] tag = "supplementary" -> core_supplementary

\* the buckets are complete: the data is what the template is handed
DataReady == pc \in {"ix_render", "ix_done"}

\* C1: in the data handed to the template, each (type, name) with a .ttl
\* file has exactly one entry among core / other / demo - in demo for type
\* demo, in core for a module named in the core table, in other for any
\* other module - and one entry in a secondary bucket exactly when it is a
\* module the table of that bucket names; no bucket holds anything else.
C1_BucketPlacement ==
    DataReady =>
        \A n \in AllNames :
            LET m == TtlFiles(fs, "modules", n) # {}
                d == TtlFiles(fs, "demo", n) # {}
            IN  /\ Count(data.demo, n) = OneIf(d)
                /\ Count(data.core, n) = OneIf(m /\ n \in core)
                /\ Count(data.other, n) = OneIf(m /\ n \notin core)
                /\ \A tag \in Buckets \ {"core", "other", "demo"} :
                       Count(data[tag], n) = OneIf(m /\ n \in TagTable(tag))

\* C1 witness: actorODP is in core and in actor, widgetX only in other
C1_Witness ==
    /\ pc = "ix_done"
    /\ Count(data.core, "actorODP") = 1
    /\ Count(data.actor, "actorODP") = 1
    /\ Count(data.other, "widgetX") = 1
    /\ \A b \in Buckets \ {"other"} : Count(data[b], "widgetX") = 0

\* C2: in the data handed to the template every one of the eight buckets is
\* sorted ascending by name: name[i] <= name[i+1] for consecutive entries,
\* in whatever order the files were enumerated.
C2_BucketsSortedByName ==
    DataReady =>
        \A b \in Buckets :
            \A i \in 1..(Len(data[b]) - 1) :
                StrLeq(data[b][i].name, data[b][i + 1].name)

\* C2 witness: glob listed demo/widgetX before demo/Zeta, and the demo bucket
\* holds Zeta before widgetX
C2_Witness ==
    /\ pc = "ix_done"
    /\ Len(sources) = 2
    /\ sources[1][3] = "widgetX"
    /\ sources[2][3] = "Zeta"
    /\ Len(data.demo) = 2
    /\ data.demo[1].name = "Zeta"
    /\ data.demo[2].name = "widgetX"

\* a version list is in descending string order and holds each version as
\* often as the given files have it
VersionsMatch(versions, files) ==
    /\ \A i \in 1..(Len(versions) - 1) : StrLeq(versions[i + 1], versions[i])
    /\ \A v \in AllVersions :
           Occurrences(versions, v) = Cardinality({p \in files : p[4] = v})

\* the sources of the current type the loop has handled
Handled == {sources[i] : i \in 1..spos}

\* C3: the version list of every name is exactly the multiset of the version
\* segments of the .ttl files found under the name (one element per file,
\* duplicates kept), in descending string order - after every insertion of
\* the scan, and in every entry of the data handed to the template.
C3_VersionLists ==
    /\ pc = "ix_scan" =>
           /\ \A i \in DOMAIN ontologies :
                  VersionsMatch(ontologies[i].versions,
                                TtlFiles(Handled, IndexTypes[tix], ontologies[i].name))
           /\ \A n \in AllNames :
                  Count(ontologies, n) = OneIf(TtlFiles(Handled, IndexTypes[tix], n) # {})
    /\ DataReady =>
           \A b \in Buckets : \A i \in DOMAIN data[b] :
               VersionsMatch(data[b][i].versions,
                             TtlFiles(fs, IF b = "demo" THEN "demo" ELSE "modules",
                                      data[b][i].name))

\* C3 witness: 0.2, 0.10 and 1.0 were inserted in that order and the list is
\* 1.0, 0.2, 0.10
C3_Witness ==
    /\ pc = "ix_scan"
    /\ spos = 3
    /\ sources[1][4] = "0.2"
    /\ sources[2][4] = "0.10"
    /\ sources[3][4] = "1.0"
    /\ Len(ontologies) = 1
    /\ ontologies[1].versions = <<"1.0", "0.2", "0.10">>

\* the integers of the version names of the model
IntTuple(v) ==
    CASE v = "0.2"  -> <<0, 2>>
      [] v = "0.10" -> <<0, 10>>
      [] v = "1.0"  -> <<1, 0>>

\* the subdirectories of a module directory that are named like a version
VersionNamed(tree, m) ==
    {v \in {"0.2", "0.10", "1.0"} : <<m[1], m[2], v>> \in DOMAIN tree}

\* v is the greatest of the versions by the integer tuples
Greatest(v, versions) ==
    /\ v \in versions
    /\ \A w \in versions : w = v \/ SeqLess(IntTuple(w), IntTuple(v))

\* C4: after create_latest_folders, every module with a version-named
\* subdirectory (latest and other names apart) has a latest folder that is a
\* copy of the version greatest by the tuple of integers of its name - 1.0
\* among 0.2, 0.10, 1.0 and 0.10 among 0.2, 0.10 - whatever latest folder
\* was there before; a module with no such subdirectory gets none.
C4_LatestIsNumericGreatest ==
    pc = "index" =>
        \A m \in ModuleUniverse :
            LET versions == VersionNamed(docs, m)
            IN  IF versions = {}
                THEN m \notin DOMAIN latest_of
                ELSE /\ m \in DOMAIN latest_of
                     /\ Greatest(latest_of[m], versions)
                     /\ <<m[1], m[2], "latest">> \in DOMAIN docs
                     /\ docs[<<m[1], m[2], "latest">>]
                            = docs[<<m[1], m[2], latest_of[m]>>]
                     /\ versions = {"0.2", "0.10", "1.0"} => latest_of[m] = "1.0"
                     /\ versions = {"0.2", "0.10"} => latest_of[m] = "0.10"

\* C4 witness: a module directory with 0.2, 0.10, v1 and a latest folder
\* whose latest folder now holds the copy of 0.10
C4_Witness ==
    /\ pc = "index"
    /\ LET m == <<"modules", "actorODP">>
       IN  /\ {s \in SubdirNames : <<m[1], m[2], s>> \in DOMAIN docs}
                  = {"0.2", "0.10", "v1", "latest"}
           /\ latest_of[m] = "0.10"
           /\ docs[<<m[1], m[2], "latest">>] = Generated(m, "0.10")

\* a prerequisite of build_local.py is missing
PrerequisiteMissing ==
    program = "build_local" /\ (~java_installed \/ ~widoco_jar_exists)

\* C5: when the Java runtime or the WIDOCO jar is missing, the run of the
\* local driver ends with a nonzero status before any work: the tool was
\* run for no file, no output directory and no latest folder exists, no
\* index file was written, and the run never gets past the checks.
C5_FailFastOnMissingPrerequisite ==
    PrerequisiteMissing =>
        /\ pc \in {"check_java", "check_widoco", "exit"}
        /\ pc = "exit" => exit_code > 0
        /\ invocations = <<>>
        /\ DOMAIN docs = {}
        /\ DOMAIN latest_of = {}
        /\ index_file = AbsentFile
        /\ index_returned = "none"

\* C5 witness: Java is there, the jar is not, there are files to document,
\* and the run has ended with status 1
C5_Witness ==
    /\ program = "build_local"
    /\ java_installed
    /\ ~widoco_jar_exists
    /\ fs # {}
    /\ pc = "exit"
    /\ exit_code = 1

\* some file's generation returned failure
SomeFileFailed == \E i \in DOMAIN results : ~results[i]

\* C6: a run of the local driver that ends with a prerequisite missing or
\* with the generation of at least one file failed ends with status 1, also
\* when other files succeeded and the latest folders and index were made.
C6_NonzeroExitOnAnyFailure ==
    (program = "build_local" /\ pc = "exit"
        /\ (PrerequisiteMissing \/ SomeFileFailed))
    => exit_code = 1

\* C6 witness: one file failed, another succeeded, a latest folder and the
\* index file were made, and the run ended with status 1
C6_Witness ==
    /\ program = "build_local"
    /\ pc = "exit"
    /\ SomeFileFailed
    /\ \E i \in DOMAIN results : results[i]
    /\ DOMAIN latest_of # {}
    /\ index_file.state = "rendered"
    /\ exit_code = 1

\* the files of the tree with an extension the driver documents
Documentable == {p \in fs : p[5] \in {"a.owl", "a.ttl", "b.ttl"}}

\* main is past its loop over the files
PastLoop ==
    /\ program = "build_local"
    /\ \/ pc \in {"latest", "index", "summary"}
       \/ pc = "exit" /\ ontology_files # <<>>

\* C7: the tool is run exactly once for every discovered file, in sorted
\* order, failed or not: the files the tool was run for are always the
\* first files of the sorted list of the discovered files, one run per
\* result counted, success_count + fail_count is the number of results, and
\* past the loop the tool has been run for every discovered file.
C7_EveryFileOnceInOrder ==
    program = "build_local" =>
        /\ invocations = SubSeq(ontology_files, 1, Len(results))
        /\ Len(results) <= Len(ontology_files)
        /\ success_count + fail_count = Len(results)
        /\ fail_count = Cardinality({i \in DOMAIN results : ~results[i]})
        /\ \A i, j \in DOMAIN ontology_files :
               i < j => PathLess(ontology_files[i], ontology_files[j])
        /\ ontology_files # <<>> =>
               {ontology_files[i] : i \in DOMAIN ontology_files} = Documentable
        /\ PastLoop =>
               /\ invocations = ontology_files
               /\ success_count + fail_count = Len(ontology_files)

\* C7 witness: the first file failed, the tool was still run for the second
\* and the third, and the loop is over
C7_Witness ==
    /\ pc = "summary"
    /\ Len(ontology_files) = 3
    /\ results = <<FALSE, TRUE, FALSE>>
    /\ invocations = ontology_files
    /\ success_count = 1
    /\ fail_count = 2

\* C8: a failure of the template step is not fatal for the local driver -
\* create_index_file returns False, the run goes on to the summary, and the
\* status is 1 exactly when the generation of some file failed - while in
\* the standalone index builder it propagates and ends the run with a
\* nonzero status.
C8_IndexFailureFatalOnlyStandalone ==
    /\ (program = "build_local" /\ index_returned # "none") =>
           /\ index_returned \in {"true", "false"}
           /\ pc \in {"summary", "exit"}
           /\ pc = "exit" => exit_code = OneIf(SomeFileFailed)
    /\ (program = "build_index" /\ index_file.state # "rendered" /\ pc = "exit") =>
           /\ index_returned = "raised"
           /\ exit_code > 0
    /\ (program = "build_index" /\ index_file.state = "rendered") =>
           /\ index_returned = "true"
           /\ exit_code = 0

\* C8 witness: in the local driver the template step failed, every file had
\* been generated, and the run ended with status 0
C8_Witness ==
    /\ program = "build_local"
    /\ index_returned = "false"
    /\ index_file.state # "rendered"
    /\ pc = "exit"
    /\ exit_code = 0

\* C9: what the driver generated for one ontology file does not depend on
\* any other discovered file: once a file has been handled, no later step
\* of the run changes the contents of its output directory.
C9_OutputsIndependent ==
    [][\A k \in DOMAIN results :
           docs'[OutputDir(ontology_files[k])] = docs[OutputDir(ontology_files[k])]]_vars

\* the files of a module whose generation succeeded in this run
GeneratedOf(m) ==
    {k \in DOMAIN results :
        results[k] /\ ontology_files[k][2] = m[1] /\ ontology_files[k][3] = m[2]}

\* C10: in a run of the local driver that reaches the summary, the latest
\* folder of every module is a copy of the highest version of the module
\* whose generation succeeded in the run, never of a version whose
\* generation failed.
C10_LatestIsHighestGenerated ==
    (program = "build_local" /\ pc = "summary") =>
        \A m \in DOMAIN latest_of :
            \E k \in GeneratedOf(m) :
                /\ ontology_files[k][4] = latest_of[m]
                /\ \A j \in GeneratedOf(m) :
                       \/ ontology_files[j][4] = latest_of[m]
                       \/ SeqLess(IntTuple(ontology_files[j][4]), IntTuple(latest_of[m]))

====
